---- MODULE Spec2Model ----
(***************************************************************************)
(* Bronze / silver / gold pipeline for VPC metrics, modelled from          *)
(*   src/backend/app/ingestion/aws/sql/bronze_vpc_metrics.sql              *)
(*   src/backend/app/ingestion/aws/sql/gold_vpc_metrics.sql                *)
(*                                                                         *)
(* Tables are sets of rows (records keyed by column name).  Timestamps    *)
(* are integers counting clock ticks; date_trunc is integer truncation.    *)
(* md5 over a '|'-joined text is modelled as the tuple of the joined       *)
(* parts (an injective digest).  SQL NULL is a sentinel per column type.   *)
(* Every DML statement is one atomic, autocommitted step of the database;  *)
(* a statement that raises an error changes nothing and ends the pass.     *)
(* Surrogate keys (SERIAL) are modelled as "largest key so far + 1": the   *)
(* gaps a sequence leaves are not modelled, freshness and order are.       *)
(* fact_id is read by no statement and no view and is left out.            *)
(***************************************************************************)
EXTENDS Integers, Sequences, FiniteSets, Bags, TLC

(* ------------------------------ bounds --------------------------------- *)
TicksPerSecond == 2      \* clock ticks in one second (timestamp resolution)
SecondsPerHour == 2      \* seconds in one hour bucket
HoursPerDay == 2         \* hour buckets in one calendar day
DaysPerMonth == 2        \* days in one calendar month
MonthsPerYear == 2       \* months in one calendar year
MaxNow == 2              \* the clock stops advancing at this tick
MaxBronze == 2           \* appends are accepted while bronze has fewer rows

TicksPerHour == TicksPerSecond * SecondsPerHour
TicksPerDay == TicksPerHour * HoursPerDay

(* ------------------------------ NULLs ---------------------------------- *)
NULL_TEXT == "<NULL>"    \* NULL in a TEXT / JSONB column
NULL_TS == -1            \* NULL in a TIMESTAMP column
NULL_NUM == -1           \* NULL in a DOUBLE PRECISION column
NULL_KEY == 0            \* NULL in an INT foreign-key column (keys start at 1)

(* --------------------------- input domains ----------------------------- *)
VpcIds == {"vpc-1"}
VpcNames == {"a", "b"}
ResourceIds == {"nat-1", "NAT-1"}
ResourceTypes == {"nat_gateway"}
Regions == {"us-east-1"}
AccountIds == {"acct"}
Timestamps == {NULL_TS, 0, 2, 62}
MetricNames == {"BytesOut", "BytesIn"}
Values == {10, 30}
Units == {"Bytes", "Count"}
DimensionsJson == {NULL_TEXT}

(* LOWER(text) on the resource ids of the model *)
Lower(s) ==
    CASE s = "NAT-1" -> "nat-1"
      [] s = "I-2" -> "i-2"
      [] OTHER -> s

(* COALESCE(x, d) for each column type *)
CoalesceText(x, d) == IF x = NULL_TEXT THEN d ELSE x
CoalesceTs(x, d) == IF x = NULL_TS THEN d ELSE x
CoalesceNum(x, d) == IF x = NULL_NUM THEN d ELSE x

(* date_trunc('second' | 'hour', ts), (ts)::date *)
DateTruncSecond(t) == t - (t % TicksPerSecond)
DateTruncHour(t) == t - (t % TicksPerHour)
DateOf(t) == t \div TicksPerDay

(* COALESCE(to_char(date_trunc('second', ts), 'YYYY-MM-DD HH24:MI:SS'), '') :
   the formatted second, or the empty text (NULL_TS here) for a NULL *)
ToCharSecond(t) == IF t = NULL_TS THEN NULL_TS ELSE DateTruncSecond(t)

(* md5(a || '|' || b || '|' || c) *)
Md5(a, b, c) == <<a, b, c>>

RECURSIVE Gcd(_, _)
Gcd(a, b) == IF b = 0 THEN a ELSE Gcd(b, a % b)

RECURSIVE SumValues(_)
SumValues(rows) ==
    IF rows = {} THEN 0
    ELSE LET x == CHOOSE y \in rows : TRUE IN x.value + SumValues(rows \ {x})

(* AVG(value::float) over the rows of one group, as a reduced fraction *)
Avg(rows) ==
    LET n == Cardinality(rows)
        t == SumValues(rows)
        g == Gcd(t, n)
    IN  [num |-> t \div g, den |-> n \div g]

(* text collation used by MAX(unit) *)
UnitOrder == <<"", "Bytes", "Count">>
UnitRank(u) == CHOOSE i \in 1..Len(UnitOrder) : UnitOrder[i] = u
MaxUnit(rows) ==
    LET us == {r.unit : r \in rows} \ {NULL_TEXT}
    IN  IF us = {} THEN NULL_TEXT
        ELSE CHOOSE u \in us : \A v \in us : UnitRank(v) <= UnitRank(u)

SetMax(S) == CHOOSE x \in S : \A y \in S : y <= x
SetMin(S) == CHOOSE x \in S : \A y \in S : x <= y

(* ------------------------------- state --------------------------------- *)
VARIABLES
    bronze,              \* bronze_vpc_metrics
    silver,              \* silver_vpc_metrics
    dim_vpc_resource,
    dim_vpc_metric,
    dim_time_hour_vpc,
    fact_vpc_metrics,
    now,                 \* the database clock, now()
    lastOp,              \* the last pipeline operation that ran
    repeated,            \* TRUE when the operation before it was the same one
    lastErr,             \* the error the last operation ended with, or "none"
    feed,                \* which raw records the collector delivers
    pc,                  \* per gold pass run statement by statement: its position
    pending,             \* per such pass: the rows its fact SELECT proposed
    promoting,           \* the bronze snapshot a promote in progress has read
    passBase,            \* the stores as they were when the interrupted pass began
    firstRun,            \* what a finished run of the pipeline in another schema left
    queried,             \* the rows the last query of the view returned
    page,                \* recommendations page: its React state
    filterBar,           \* filter bar: its React state
    inflight,            \* requests sent by the frontend and not answered yet
    today                \* the day the browser's clock shows

vars == <<bronze, silver, dim_vpc_resource, dim_vpc_metric, dim_time_hour_vpc,
          fact_vpc_metrics, now, lastOp, repeated, lastErr, feed, pc, pending,
          promoting, passBase, firstRun, queried, page, filterBar, inflight,
          today>>

(* the state the pipeline statements never touch *)
auxVars == <<firstRun, queried, page, filterBar, inflight, today>>

(* bookkeeping of an operation that ran *)
Ran(op, err) ==
    /\ lastOp' = op
    /\ repeated' = (lastOp = op)
    /\ lastErr' = err

HashKeys(table) == {r.hash_key : r \in table}

(* ------------------------------ bronze --------------------------------- *)
(* the raw records a collector can deliver *)
AllRawRecords ==
    [vpc_id : VpcIds, vpc_name : VpcNames, resource_id : ResourceIds,
     resource_type : ResourceTypes, region : Regions, account_id : AccountIds,
     timestamp : Timestamps, metric_name : MetricNames, value : Values,
     unit : Units, dimensions_json : DimensionsJson]

(* a complete record, the record with every nullable field missing, and the
   complete record with one field missing *)
CompleteRecord ==
    [vpc_id |-> "vpc-1", vpc_name |-> "a", resource_id |-> "nat-1",
     resource_type |-> "nat_gateway", region |-> "us-east-1",
     account_id |-> "acct", timestamp |-> 0, metric_name |-> "BytesOut",
     value |-> 10, unit |-> "Bytes", dimensions_json |-> NULL_TEXT]

NullOf(field) ==
    CASE field = "timestamp" -> NULL_TS
      [] field = "value" -> NULL_NUM
      [] OTHER -> NULL_TEXT

SparseRecords ==
    {CompleteRecord, [f \in DOMAIN CompleteRecord |-> NullOf(f)]}
    \cup {[CompleteRecord EXCEPT ![f] = NullOf(f)] : f \in DOMAIN CompleteRecord}

(* one series reported with and without an event time, under no attribute
   map or one of two *)
AttributeMaps == {"{az:a}", "{az:b}"}

MapRecords ==
    {[CompleteRecord EXCEPT !.timestamp = t, !.dimensions_json = d] :
        t \in {NULL_TS, 0}, d \in AttributeMaps \cup {NULL_TEXT}}

(* the records of one feed: "series" is one named resource, written in either
   letter case, with and without event times; "double-run" is the series of
   one resource with event times; "attributes" is one resource id delivered
   under two names; "catalog" is one resource reporting a metric in two
   units within one hour and a second resource reporting another metric in a
   later year; "race" is two resource ids, each under two names; "undated"
   is one resource reporting once with and once without an event time;
   "sparse" is records with missing fields; "maps" is records with
   attribute maps *)
RawRecords(f) ==
    CASE f = "series" ->
           {r \in AllRawRecords : /\ r.vpc_name = "a"
                                   /\ r.timestamp \in {NULL_TS, 0, 2}
                                   /\ r.metric_name = "BytesOut"
                                   /\ r.unit = "Bytes"}
      [] f = "double-run" ->
           {r \in AllRawRecords : /\ r.vpc_name = "a"
                                   /\ r.resource_id = "nat-1"
                                   /\ r.timestamp \in {0, 2}
                                   /\ r.metric_name = "BytesOut"
                                   /\ r.value = 10
                                   /\ r.unit = "Bytes"}
      [] f = "attributes" ->
           {r \in AllRawRecords : /\ r.resource_id = "nat-1"
                                   /\ r.timestamp \in {0, 2}
                                   /\ r.metric_name = "BytesOut"
                                   /\ r.value = 10
                                   /\ r.unit = "Bytes"}
      [] f = "catalog" ->
           {r \in AllRawRecords :
               /\ r.vpc_name = "a" /\ r.value = 10
               /\ \/ /\ r.resource_id = "nat-1" /\ r.metric_name = "BytesOut"
                     /\ r.timestamp \in {0, 2}
                  \/ /\ r.resource_id = "NAT-1" /\ r.metric_name = "BytesIn"
                     /\ r.timestamp = 62 /\ r.unit = "Count"}
      [] f = "undated" ->
           {r \in AllRawRecords : /\ r.vpc_name = "a"
                                   /\ r.resource_id = "nat-1"
                                   /\ r.timestamp \in {NULL_TS, 62}
                                   /\ r.metric_name = "BytesOut"
                                   /\ r.value = 10
                                   /\ r.unit = "Bytes"}
      [] f = "sparse" -> SparseRecords
      [] f = "maps" -> MapRecords
      [] f = "race" ->
           {r \in AllRawRecords : /\ r.timestamp \in {0, 2}
                                   /\ r.metric_name = "BytesOut"
                                   /\ r.value = 10
                                   /\ r.unit = "Bytes"}

(* fingerprint of a bronze / silver record: lower-cased resource id,
   second-truncated timestamp, metric name *)
Fingerprint(rec) ==
    Md5(Lower(CoalesceText(rec.resource_id, "")),
        ToCharSecond(rec.timestamp),
        CoalesceText(rec.metric_name, ""))

BronzeRow(rec, t) ==
    [vpc_id |-> rec.vpc_id, vpc_name |-> rec.vpc_name,
     resource_id |-> rec.resource_id, resource_type |-> rec.resource_type,
     region |-> rec.region, account_id |-> rec.account_id,
     timestamp |-> rec.timestamp, metric_name |-> rec.metric_name,
     value |-> rec.value, unit |-> rec.unit,
     dimensions_json |-> rec.dimensions_json,
     hash_key |-> Fingerprint(rec), ingested_at |-> t]

(* variant: an index over the whole row instead of hash_key *)
ux_bronze_whole_row(table, row) == \E b \in table : b = row

(* CREATE UNIQUE INDEX ux_bronze_vpc_hash: does the index reject the row? *)
ux_bronze_vpc_hash(table, row) == \E b \in table : b.hash_key = row.hash_key

(* append(record): a rejected duplicate is a no-op *)
AppendBronze(rec) ==
    /\ LET row == BronzeRow(rec, now)
       IN  /\ Cardinality(bronze) < MaxBronze \/ ux_bronze_vpc_hash(bronze, row)
           /\ bronze' = IF ux_bronze_vpc_hash(bronze, row) THEN bronze
                         ELSE bronze \cup {row}
    /\ Ran("append", "none")
    /\ UNCHANGED <<silver, dim_vpc_resource, dim_vpc_metric, dim_time_hour_vpc,
                   fact_vpc_metrics, now, feed, auxVars, pc, pending, promoting, passBase>>

(* ------------------------------ silver --------------------------------- *)
(* one row of the promote SELECT *)
SilverSelect(b, t) ==
    [vpc_id |-> CoalesceText(b.vpc_id, ""),
     vpc_name |-> CoalesceText(b.vpc_name, ""),
     resource_id |-> CoalesceText(b.resource_id, ""),
     resource_type |-> CoalesceText(b.resource_type, "vpc"),
     region |-> CoalesceText(b.region, ""),
     account_id |-> CoalesceText(b.account_id, ""),
     timestamp |-> CoalesceTs(b.timestamp, t),
     metric_name |-> CoalesceText(b.metric_name, ""),
     value |-> CoalesceNum(b.value, 0),
     unit |-> CoalesceText(b.unit, ""),
     dimensions_json |-> b.dimensions_json,
     hash_key |-> b.hash_key,
     ingested_at |-> b.ingested_at]

(* variant: the conflict arbiter compares whole rows *)
SilverConflictWholeRow(table, row) == \E s \in table : s = row

(* UNIQUE(hash_key) as the arbiter of ON CONFLICT (hash_key) *)
SilverConflict(table, row) == \E s \in table : s.hash_key = row.hash_key

(* variant: ON CONFLICT (hash_key) DO UPDATE, the proposed row replaces the
   stored one *)
InsertSilverOverwrite(table, rows) ==
    {{s \in table : s.hash_key \notin HashKeys(rows)} \cup rows}


(* the silver tables INSERT ... SELECT DISTINCT ... ON CONFLICT DO NOTHING can
   leave: rows are taken in an unspecified order, a row that conflicts with a
   stored row or with a row taken before it is skipped *)
RECURSIVE InsertSilver(_, _)
InsertSilver(table, rows) ==
    IF rows = {} THEN {table}
    ELSE UNION { InsertSilver(IF SilverConflict(table, r) THEN table
                              ELSE table \cup {r}, rows \ {r}) : r \in rows }

PromoteResults(t) == InsertSilver(silver, {SilverSelect(b, t) : b \in bronze})

(* variant: promote moves the rows, it empties bronze after copying *)
PromoteAndPurge ==
    /\ silver' \in PromoteResults(now)
    /\ bronze' = {}
    /\ Ran("promote", "none")
    /\ UNCHANGED <<dim_vpc_resource, dim_vpc_metric, dim_time_hour_vpc,
                   fact_vpc_metrics, now, feed, auxVars, pc, pending, promoting, passBase>>

(* the promote statement of bronze_vpc_metrics.sql as one step *)
Promote ==
    /\ silver' \in PromoteResults(now)
    /\ Ran("promote", "none")
    /\ UNCHANGED <<bronze, dim_vpc_resource, dim_vpc_metric, dim_time_hour_vpc,
                   fact_vpc_metrics, now, feed, auxVars, pc, pending, promoting, passBase>>

(* ------------------------------- gold ---------------------------------- *)
Keys(table, col) == {r[col] : r \in table}
(* variant: no sequence behind the key column, numbering restarts *)
NextKeyRestart(table, col) == 1

(* the next value of the SERIAL key column of a table *)
NextKey(table, col) == IF table = {} THEN 1 ELSE SetMax(Keys(table, col)) + 1

(* the ways a statement can hand fresh consecutive keys to the new natural
   keys it inserts (the order rows are inserted in is unspecified) *)
KeyAssignments(new, first) ==
    {f \in [new -> first .. (first + Cardinality(new) - 1)] :
        \A x, y \in new : x # y => f[x] # f[y]}

(* SELECT DISTINCT ... MIN(ingested_at) OVER (PARTITION BY resource_id)
   FROM silver: the rows proposed to dim_vpc_resource *)
ResourceSelect(sil) ==
    {[resource_id |-> CoalesceText(s.resource_id, ""),
      vpc_id |-> CoalesceText(s.vpc_id, ""),
      vpc_name |-> CoalesceText(s.vpc_name, ""),
      resource_type |-> CoalesceText(s.resource_type, "vpc"),
      region |-> CoalesceText(s.region, ""),
      account_id |-> CoalesceText(s.account_id, ""),
      first_seen |-> SetMin({x.ingested_at : x \in
                        {y \in sil : CoalesceText(y.resource_id, "") =
                                     CoalesceText(s.resource_id, "")}})]
     : s \in sil}

(* ON CONFLICT DO UPDATE may not touch one row twice in one statement: two
   proposed rows with one resource_id make the statement fail *)
ResourceUpsertFails(sil) ==
    \E p, q \in ResourceSelect(sil) : p # q /\ p.resource_id = q.resource_id

(* variant: ON CONFLICT also overwrites first_seen, with the latest load time
   of the resource's silver rows *)
ResourceUpsertLastSeen(dim, sil) ==
    LET Last(id) == SetMax({x.ingested_at : x \in
                       {y \in sil : CoalesceText(y.resource_id, "") = id}})
        src == ResourceSelect(sil)
        new == Keys(src, "resource_id") \ Keys(dim, "resource_id")
        Src(id) == CHOOSE p \in src : p.resource_id = id
    IN  {{IF d.resource_id \in Keys(src, "resource_id")
          THEN [d EXCEPT !.first_seen = Last(d.resource_id)] ELSE d : d \in dim}
         \cup
         {[resource_key |-> k[id], resource_id |-> id,
           vpc_id |-> Src(id).vpc_id, vpc_name |-> Src(id).vpc_name,
           resource_type |-> Src(id).resource_type, region |-> Src(id).region,
           account_id |-> Src(id).account_id,
           first_seen |-> Src(id).first_seen] : id \in new}
         : k \in KeyAssignments(new, NextKey(dim, "resource_key"))}

(* variant: a conflicting row is deleted and stored again under a fresh key *)
ResourceUpsertReplace(dim, sil) ==
    LET src == ResourceSelect(sil)
        ids == Keys(src, "resource_id")
        Src(id) == CHOOSE p \in src : p.resource_id = id
    IN  {{d \in dim : d.resource_id \notin ids} \cup
         {[resource_key |-> k[id], resource_id |-> id,
           vpc_id |-> Src(id).vpc_id, vpc_name |-> Src(id).vpc_name,
           resource_type |-> Src(id).resource_type, region |-> Src(id).region,
           account_id |-> Src(id).account_id,
           first_seen |-> Src(id).first_seen] : id \in ids}
         : k \in KeyAssignments(ids, NextKey(dim, "resource_key"))}

(* INSERT INTO dim_vpc_resource ... ON CONFLICT (resource_id) DO UPDATE *)
ResourceUpsert(dim, sil) ==
    LET src == ResourceSelect(sil)
        old == Keys(dim, "resource_id")
        new == Keys(src, "resource_id") \ old
        Src(id) == CHOOSE p \in src : p.resource_id = id
        updated == {IF d.resource_id \in Keys(src, "resource_id")
                    THEN [d EXCEPT !.vpc_id = Src(d.resource_id).vpc_id,
                                   !.vpc_name = Src(d.resource_id).vpc_name,
                                   !.resource_type = Src(d.resource_id).resource_type,
                                   !.region = Src(d.resource_id).region,
                                   !.account_id = Src(d.resource_id).account_id]
                    ELSE d : d \in dim}
    IN  {updated \cup
         {[resource_key |-> k[id], resource_id |-> id,
           vpc_id |-> Src(id).vpc_id, vpc_name |-> Src(id).vpc_name,
           resource_type |-> Src(id).resource_type, region |-> Src(id).region,
           account_id |-> Src(id).account_id,
           first_seen |-> Src(id).first_seen] : id \in new}
         : k \in KeyAssignments(new, NextKey(dim, "resource_key"))}

(* variant: ON CONFLICT (metric_name) DO UPDATE SET unit = EXCLUDED.unit *)
MetricInsertOverwrite(dim, sil) ==
    LET names == Keys(sil, "metric_name")
        new == names \ Keys(dim, "metric_name")
        UnitsOf(m) == {s.unit : s \in {x \in sil : x.metric_name = m}}
        lasts == {u \in [names -> Keys(sil, "unit")] :
                      \A m \in names : u[m] \in UnitsOf(m)}
    IN  {{IF d.metric_name \in names THEN [d EXCEPT !.unit = u[d.metric_name]]
          ELSE d : d \in dim}
         \cup {[metric_key |-> k[m], metric_name |-> m, unit |-> u[m],
                 description |-> ""] : m \in new}
         : k \in KeyAssignments(new, NextKey(dim, "metric_key")), u \in lasts}

(* INSERT INTO dim_vpc_metric SELECT DISTINCT metric_name, unit, ''
   ... ON CONFLICT (metric_name) DO NOTHING: of the proposed rows of a new
   metric name the one taken first is stored *)
MetricInsert(dim, sil) ==
    LET new == Keys(sil, "metric_name") \ Keys(dim, "metric_name")
        UnitsOf(m) == {s.unit : s \in {x \in sil : x.metric_name = m}}
        firsts == {u \in [new -> Keys(sil, "unit")] :
                       \A m \in new : u[m] \in UnitsOf(m)}
    IN  {dim \cup {[metric_key |-> k[m], metric_name |-> m, unit |-> u[m],
                    description |-> ""] : m \in new}
         : k \in KeyAssignments(new, NextKey(dim, "metric_key")), u \in firsts}

(* EXTRACT(YEAR | MONTH | DAY | HOUR FROM ts); years count from the clock's
   epoch *)
ExtractHour(t) == (t \div TicksPerHour) % HoursPerDay
ExtractDay(t) == (DateOf(t) % DaysPerMonth) + 1
ExtractMonth(t) == ((DateOf(t) \div DaysPerMonth) % MonthsPerYear) + 1
ExtractYear(t) == DateOf(t) \div (DaysPerMonth * MonthsPerYear)

(* variant: the bucket is keyed by the timestamp as it is, not by its hour *)
TimeInsertUntruncated(dim, sil, t) ==
    LET new == {CoalesceTs(s.timestamp, t) : s \in sil} \ Keys(dim, "event_hour")
    IN  {dim \cup {[time_key |-> k[h], event_hour |-> h,
                    event_date |-> DateOf(h), year |-> ExtractYear(h),
                    month |-> ExtractMonth(h), day |-> ExtractDay(h),
                    hour |-> ExtractHour(h)] : h \in new}
         : k \in KeyAssignments(new, NextKey(dim, "time_key"))}

(* INSERT INTO dim_time_hour_vpc ... ON CONFLICT (event_hour) DO NOTHING *)
TimeInsert(dim, sil, t) ==
    LET HourOf(s) == DateTruncHour(CoalesceTs(s.timestamp, t))
        new == {HourOf(s) : s \in sil} \ Keys(dim, "event_hour")
    IN  {dim \cup {[time_key |-> k[h], event_hour |-> h,
                    event_date |-> DateOf(h), year |-> ExtractYear(h),
                    month |-> ExtractMonth(h), day |-> ExtractDay(h),
                    hour |-> ExtractHour(h)] : h \in new}
         : k \in KeyAssignments(new, NextKey(dim, "time_key"))}

(* variant: the digest covers now() instead of the record's timestamp *)
fact_hash_key_now(s, t) ==
    Md5(Lower(CoalesceText(s.resource_id, "")),
        ToCharSecond(t),
        CoalesceText(s.metric_name, ""))

(* md5(LOWER(resource_id) || '|' || to_char(second) || '|' || metric_name) *)
fact_hash_key(s, t) ==
    Md5(Lower(CoalesceText(s.resource_id, "")),
        ToCharSecond(CoalesceTs(s.timestamp, t)),
        CoalesceText(s.metric_name, ""))

(* GROUP BY 1,2,3,4,5,6,7,8,9,10 *)
GroupKey(s, t) ==
    <<Lower(CoalesceText(s.resource_id, "")),
      CoalesceText(s.vpc_id, ""),
      CoalesceText(s.vpc_name, ""),
      CoalesceText(s.resource_type, "vpc"),
      CoalesceText(s.account_id, ""),
      CoalesceTs(s.timestamp, t),
      DateTruncHour(CoalesceTs(s.timestamp, t)),
      DateOf(DateTruncHour(CoalesceTs(s.timestamp, t))),
      CoalesceText(s.region, ""),
      s.metric_name>>

(* variant: jsonb_agg(DISTINCT dimensions_json) without the FILTER *)
DimensionsAggUnfiltered(rows) == {r.dimensions_json : r \in rows}

(* jsonb_agg(DISTINCT dimensions_json) FILTER (WHERE ... IS NOT NULL) and the
   CASE of the fact insert: NULL, the single map, or the array of the maps *)
DimensionsAgg(rows) == {r.dimensions_json : r \in rows} \ {NULL_TEXT}
MergedDimensions(agg) ==
    IF agg = {} THEN [kind |-> "null", items |-> {}]
    ELSE IF Cardinality(agg) = 1 THEN [kind |-> "object", items |-> agg]
    ELSE [kind |-> "array", items |-> agg]

(* WITH metric_agg AS (SELECT ... GROUP BY ...) *)
metric_agg(sil, t) ==
    {LET rows == {s \in sil : GroupKey(s, t) = g}
         any == CHOOSE s \in rows : TRUE
     IN  [resource_id |-> g[1], vpc_id |-> g[2], vpc_name |-> g[3],
          resource_type |-> g[4], account_id |-> g[5], timestamp |-> g[6],
          event_hour |-> g[7], event_date |-> g[8], region |-> g[9],
          metric_name |-> g[10],
          value |-> Avg(rows),
          unit |-> MaxUnit(rows),
          dimensions_agg |-> DimensionsAgg(rows),
          samples |-> Cardinality(rows),
          fact_hash_key |-> fact_hash_key(any, t)]
     : g \in {GroupKey(s, t) : s \in sil}}

(* LEFT JOIN dim ON dim.<col> = <value>: the key of the matching row or NULL *)
LeftJoinKey(dim, col, value, keycol) ==
    IF \E d \in dim : d[col] = value
    THEN (CHOOSE d \in dim : d[col] = value)[keycol]
    ELSE NULL_KEY

(* WHERE NOT EXISTS (SELECT 1 FROM fact f WHERE f.hash_key = a.fact_hash_key) *)
NotExistsFact(fact, a) == ~ \E f \in fact : f.hash_key = a.fact_hash_key

(* the rows the fact INSERT ... SELECT proposes *)
FactSelect(sil, dimRes, dimTime, fact, t) ==
    {[resource_key |-> LeftJoinKey(dimRes, "resource_id", a.resource_id,
                                   "resource_key"),
      time_key |-> LeftJoinKey(dimTime, "event_hour", a.event_hour, "time_key"),
      resource_id |-> a.resource_id, vpc_id |-> a.vpc_id,
      vpc_name |-> a.vpc_name, resource_type |-> a.resource_type,
      account_id |-> a.account_id, timestamp |-> a.timestamp,
      event_hour |-> a.event_hour, event_date |-> a.event_date,
      region |-> a.region, metric_name |-> a.metric_name,
      value |-> a.value, unit |-> a.unit,
      dimensions_json |-> MergedDimensions(a.dimensions_agg),
      samples |-> a.samples, hash_key |-> a.fact_hash_key,
      ingested_at |-> t]
     : a \in {x \in metric_agg(sil, t) : NotExistsFact(fact, x)}}

(* variant: fact_vpc_metrics without the unique constraint *)
FactNoUnique(fact, rows) == FALSE

(* UNIQUE(hash_key) of fact_vpc_metrics: would storing the rows violate it? *)
FactUniqueViolation(fact, rows) ==
    \/ \E r \in rows : \E f \in fact : f.hash_key = r.hash_key
    \/ \E r, q \in rows : r # q /\ r.hash_key = q.hash_key

(* variant: an upsert, every aggregate row replaces the stored row of its
   hash_key *)
FactUpsert(sil, dimRes, dimTime, fact, t) ==
    LET rows == FactSelect(sil, dimRes, dimTime, {}, t)
    IN  [fact |-> {f \in fact : f.hash_key \notin HashKeys(rows)} \cup rows,
         err |-> "none"]

(* INSERT INTO fact_vpc_metrics (...) SELECT ... WHERE NOT EXISTS (...): all
   proposed rows are stored or, on a unique violation, none *)
FactInsert(sil, dimRes, dimTime, fact, t) ==
    LET rows == FactSelect(sil, dimRes, dimTime, fact, t)
    IN  IF FactUniqueViolation(fact, rows)
        THEN [fact |-> fact, err |-> "unique_violation"]
        ELSE [fact |-> fact \cup rows, err |-> "none"]

(* one pass over gold_vpc_metrics.sql: the three dimension statements, then
   the fact insert; the first failing statement ends the pass *)
GoldPass ==
    /\ UNCHANGED <<bronze, silver, now, feed, auxVars, pc, pending, promoting, passBase>>
    /\ IF ResourceUpsertFails(silver)
       THEN /\ Ran("gold", "cardinality_violation")
            /\ UNCHANGED <<dim_vpc_resource, dim_vpc_metric, dim_time_hour_vpc,
                           fact_vpc_metrics>>
       ELSE /\ dim_vpc_resource' \in ResourceUpsert(dim_vpc_resource, silver)
            /\ dim_vpc_metric' \in MetricInsert(dim_vpc_metric, silver)
            /\ dim_time_hour_vpc' \in TimeInsert(dim_time_hour_vpc, silver, now)
            /\ LET res == FactInsert(silver, dim_vpc_resource',
                                     dim_time_hour_vpc', fact_vpc_metrics, now)
               IN  /\ fact_vpc_metrics' = res.fact
                   /\ Ran("gold", res.err)

(* the database clock advances *)
Tick ==
    /\ now < MaxNow
    /\ now' = now + 1
    /\ UNCHANGED <<bronze, silver, dim_vpc_resource, dim_vpc_metric,
                   dim_time_hour_vpc, fact_vpc_metrics, lastOp, repeated,
                   lastErr, feed, auxVars, pc, pending, promoting, passBase>>

Passes == {"pass-1", "pass-2"}

(* a component that has not rendered yet *)
Unmounted == [mounted |-> FALSE]

InitStores ==
    /\ bronze = {}
    /\ silver = {}
    /\ dim_vpc_resource = {}
    /\ dim_vpc_metric = {}
    /\ dim_time_hour_vpc = {}
    /\ fact_vpc_metrics = {}
    /\ now = 0
    /\ lastOp = "none"
    /\ repeated = FALSE
    /\ lastErr = "none"
    /\ pc = [w \in Passes |-> "idle"]
    /\ pending = [w \in Passes |-> {}]
    /\ promoting = [active |-> FALSE, rows |-> {}]
    /\ passBase = [silver |-> {}, resource |-> {}, metric |-> {}, time |-> {},
                   fact |-> {}, stopped_at |-> "none"]
    /\ firstRun = [done |-> FALSE, records |-> {}, bronze |-> {}, silver |-> {},
                   fact |-> {}]
    /\ queried = <<>>
    /\ page = Unmounted
    /\ filterBar = Unmounted
    /\ inflight = {}
    /\ today = 0

Init == InitStores /\ feed = "series"

(* one gold pass at a time, its statements back to back *)
Next ==
    \/ \E rec \in RawRecords(feed) : AppendBronze(rec)
    \/ Promote
    \/ GoldPass
    \/ Tick

Spec == Init /\ [][Next]_vars

(* --------------- gold passes run statement by statement ----------------- *)
(* a scheduled pass starts; each of the two passes runs once *)
PassStart(w) ==
    /\ pc[w] = "idle"
    /\ pc' = [pc EXCEPT ![w] = "resource"]
    /\ UNCHANGED <<bronze, silver, dim_vpc_resource, dim_vpc_metric,
                   dim_time_hour_vpc, fact_vpc_metrics, now, lastOp, repeated,
                   lastErr, feed, auxVars, pending, promoting, passBase>>

PassResource(w) ==
    /\ pc[w] = "resource"
    /\ IF ResourceUpsertFails(silver)
       THEN /\ pc' = [pc EXCEPT ![w] = "failed"]
            /\ Ran("gold", "cardinality_violation")
            /\ UNCHANGED dim_vpc_resource
       ELSE /\ pc' = [pc EXCEPT ![w] = "metric"]
            /\ dim_vpc_resource' \in ResourceUpsert(dim_vpc_resource, silver)
            /\ UNCHANGED <<lastOp, repeated, lastErr>>
    /\ UNCHANGED <<bronze, silver, dim_vpc_metric, dim_time_hour_vpc,
                   fact_vpc_metrics, now, feed, auxVars, pending, promoting, passBase>>

PassMetric(w) ==
    /\ pc[w] = "metric"
    /\ pc' = [pc EXCEPT ![w] = "time"]
    /\ dim_vpc_metric' \in MetricInsert(dim_vpc_metric, silver)
    /\ UNCHANGED <<bronze, silver, dim_vpc_resource, dim_time_hour_vpc,
                   fact_vpc_metrics, now, lastOp, repeated, lastErr, feed, auxVars,
                   pending, promoting, passBase>>

PassTime(w) ==
    /\ pc[w] = "time"
    /\ pc' = [pc EXCEPT ![w] = "fact-select"]
    /\ dim_time_hour_vpc' \in TimeInsert(dim_time_hour_vpc, silver, now)
    /\ UNCHANGED <<bronze, silver, dim_vpc_resource, dim_vpc_metric,
                   fact_vpc_metrics, now, lastOp, repeated, lastErr, feed, auxVars,
                   pending, promoting, passBase>>

(* the fact INSERT ... SELECT reads its snapshot of the committed tables *)
PassFactSelect(w) ==
    /\ pc[w] = "fact-select"
    /\ pc' = [pc EXCEPT ![w] = "fact-insert"]
    /\ pending' = [pending EXCEPT ![w] =
            FactSelect(silver, dim_vpc_resource, dim_time_hour_vpc,
                       fact_vpc_metrics, now)]
    /\ UNCHANGED <<bronze, silver, dim_vpc_resource, dim_vpc_metric,
                   dim_time_hour_vpc, fact_vpc_metrics, now, lastOp, repeated,
                   lastErr, feed, auxVars, promoting, passBase>>

(* ... and stores the proposed rows: the unique index is checked against the
   rows committed by then, and a violation is an error that stores nothing *)
PassFactInsert(w) ==
    /\ pc[w] = "fact-insert"
    /\ IF FactUniqueViolation(fact_vpc_metrics, pending[w])
       THEN /\ pc' = [pc EXCEPT ![w] = "failed"]
            /\ Ran("gold", "unique_violation")
            /\ UNCHANGED fact_vpc_metrics
       ELSE /\ pc' = [pc EXCEPT ![w] = "done"]
            /\ Ran("gold", "none")
            /\ fact_vpc_metrics' = fact_vpc_metrics \cup pending[w]
    /\ UNCHANGED <<bronze, silver, dim_vpc_resource, dim_vpc_metric,
                   dim_time_hour_vpc, now, feed, auxVars, pending, promoting, passBase>>

InitDoubleRun == InitStores /\ feed = "double-run"

(* two gold passes may overlap each other and the upstream stages *)
NextDoubleRun ==
    \/ \E rec \in RawRecords(feed) : AppendBronze(rec)
    \/ Promote
    \/ Tick
    \/ \E w \in Passes : PassStart(w)
    \/ \E w \in Passes : PassResource(w)
    \/ \E w \in Passes : PassMetric(w)
    \/ \E w \in Passes : PassTime(w)
    \/ \E w \in Passes : PassFactSelect(w)
    \/ \E w \in Passes : PassFactInsert(w)

SpecDoubleRun == InitDoubleRun /\ [][NextDoubleRun]_vars

(* ------------- promote run as snapshot read, then insert ---------------- *)
(* variant: the SELECT skips bronze rows without an event time *)
PromoteSelectEventTimeOnly(bron, t) ==
    {SilverSelect(b, t) : b \in {x \in bron : x.timestamp # NULL_TS}}

(* SELECT DISTINCT ... FROM bronze_vpc_metrics over the statement's snapshot *)
PromoteSelect(bron, t) == {SilverSelect(b, t) : b \in bron}

(* the promote statement starts: it reads the bronze rows committed by now *)
PromoteRead ==
    /\ ~ promoting.active
    /\ promoting' = [active |-> TRUE, rows |-> PromoteSelect(bronze, now)]
    /\ UNCHANGED <<bronze, silver, dim_vpc_resource, dim_vpc_metric,
                   dim_time_hour_vpc, fact_vpc_metrics, now, lastOp, repeated,
                   lastErr, feed, auxVars, pc, pending, passBase>>

(* ... and inserts what it read; bronze may have grown in between *)
PromoteWrite ==
    /\ promoting.active
    /\ silver' \in InsertSilver(silver, promoting.rows)
    /\ promoting' = [active |-> FALSE, rows |-> {}]
    /\ Ran("promote", "none")
    /\ UNCHANGED <<bronze, dim_vpc_resource, dim_vpc_metric, dim_time_hour_vpc,
                   fact_vpc_metrics, now, feed, auxVars, pc, pending, passBase>>

NextInterleaved ==
    \/ \E rec \in RawRecords(feed) : AppendBronze(rec)
    \/ PromoteRead
    \/ PromoteWrite
    \/ Tick

(* promote is scheduled again and again, and a started statement finishes *)
SpecInterleaved ==
    /\ Init
    /\ [][NextInterleaved]_vars
    /\ WF_vars(PromoteRead)
    /\ WF_vars(PromoteWrite)

(* one resource id arrives under several names *)
InitAttributes == InitStores /\ feed = "attributes"

SpecAttributes == InitAttributes /\ [][Next]_vars

(* several metrics, units and hours *)
InitCatalog == InitStores /\ feed = "catalog"

SpecCatalog == InitCatalog /\ [][Next]_vars

(* ------------------ a gold pass that stops part-way --------------------- *)
(* the stores one uninterrupted run of gold_vpc_metrics.sql can leave *)
GoldPassResults(sil, res, met, tim, fact, t) ==
    IF ResourceUpsertFails(sil)
    THEN {[resource |-> res, metric |-> met, time |-> tim, fact |-> fact]}
    ELSE {[resource |-> r, metric |-> m, time |-> h,
           fact |-> FactInsert(sil, r, h, fact, t).fact]
          : r \in ResourceUpsert(res, sil), m \in MetricInsert(met, sil),
            h \in TimeInsert(tim, sil, t)}

(* a pass starts; the stores it starts from are remembered *)
PassStartRecorded(w) ==
    /\ pc[w] = "idle"
    /\ pc' = [pc EXCEPT ![w] = "resource"]
    /\ passBase' = [silver |-> silver, resource |-> dim_vpc_resource,
                    metric |-> dim_vpc_metric, time |-> dim_time_hour_vpc,
                    fact |-> fact_vpc_metrics, stopped_at |-> "none"]
    /\ UNCHANGED <<bronze, silver, dim_vpc_resource, dim_vpc_metric,
                   dim_time_hour_vpc, fact_vpc_metrics, now, lastOp, repeated,
                   lastErr, feed, auxVars, pending, promoting>>

(* the session running the pass dies between two statements; every statement
   already run is committed, the one it had reached is not run *)
PassCrash(w) ==
    /\ pc[w] \in {"resource", "metric", "time", "fact-select", "fact-insert"}
    /\ pc' = [pc EXCEPT ![w] = "crashed"]
    /\ passBase' = [passBase EXCEPT !.stopped_at = pc[w]]
    /\ UNCHANGED <<bronze, silver, dim_vpc_resource, dim_vpc_metric,
                   dim_time_hour_vpc, fact_vpc_metrics, now, lastOp, repeated,
                   lastErr, feed, auxVars, pending, promoting>>


(* one pass runs statement by statement and may stop anywhere; complete
   passes run as well *)
NextResume ==
    \/ \E rec \in RawRecords(feed) : AppendBronze(rec)
    \/ Promote
    \/ Tick
    \/ PassStartRecorded("pass-1")
    \/ PassResource("pass-1")
    \/ PassMetric("pass-1")
    \/ PassTime("pass-1")
    \/ PassFactSelect("pass-1")
    \/ PassFactInsert("pass-1")
    \/ PassCrash("pass-1")
    \/ GoldPass

SpecResume == InitAttributes /\ [][NextResume]_vars

(* --------- resource upserts of two sessions, row by row ----------------- *)
(* DO UPDATE SET vpc_id = EXCLUDED.vpc_id, ...: one write of the stored row *)
ConflictUpdate(d, p) ==
    [d EXCEPT !.vpc_id = p.vpc_id, !.vpc_name = p.vpc_name,
              !.resource_type = p.resource_type, !.region = p.region,
              !.account_id = p.account_id]

(* variant: no arbiter on resource_id, every proposed row is stored *)
ResourceRowInsert(dim, p) ==
    dim \cup {[resource_key |-> NextKey(dim, "resource_key"),
               resource_id |-> p.resource_id, vpc_id |-> p.vpc_id,
               vpc_name |-> p.vpc_name, resource_type |-> p.resource_type,
               region |-> p.region, account_id |-> p.account_id,
               first_seen |-> p.first_seen]}

(* one proposed row meets the unique index on resource_id: it is stored, or
   the row holding its resource_id is rewritten *)
ResourceRowUpsert(dim, p) ==
    IF \E d \in dim : d.resource_id = p.resource_id
    THEN {IF d.resource_id = p.resource_id THEN ConflictUpdate(d, p) ELSE d
          : d \in dim}
    ELSE dim \cup {[resource_key |-> NextKey(dim, "resource_key"),
                    resource_id |-> p.resource_id, vpc_id |-> p.vpc_id,
                    vpc_name |-> p.vpc_name, resource_type |-> p.resource_type,
                    region |-> p.region, account_id |-> p.account_id,
                    first_seen |-> p.first_seen]}

(* a session starts the resource upsert: the SELECT reads silver; two
   proposed rows of one resource_id make the statement fail with nothing
   stored *)
UpsertBegin(w) ==
    /\ pc[w] = "idle"
    /\ IF ResourceUpsertFails(silver)
       THEN /\ pc' = [pc EXCEPT ![w] = "failed"]
            /\ Ran("resource-upsert", "cardinality_violation")
            /\ UNCHANGED pending
       ELSE /\ pc' = [pc EXCEPT ![w] = "upsert-rows"]
            /\ pending' = [pending EXCEPT ![w] =
                    {[row |-> p, done |-> FALSE] : p \in ResourceSelect(silver)}]
            /\ UNCHANGED <<lastOp, repeated, lastErr>>
    /\ UNCHANGED <<bronze, silver, dim_vpc_resource, dim_vpc_metric,
                   dim_time_hour_vpc, fact_vpc_metrics, now, feed, auxVars, promoting,
                   passBase>>

(* the statement handles one of its proposed rows; sessions meeting on one
   resource_id take turns at the unique index *)
UpsertRow(w) ==
    /\ pc[w] = "upsert-rows"
    /\ \E x \in pending[w] :
          /\ ~ x.done
          /\ dim_vpc_resource' = ResourceRowUpsert(dim_vpc_resource, x.row)
          /\ pending' = [pending EXCEPT ![w] =
                            (@ \ {x}) \cup {[x EXCEPT !.done = TRUE]}]
    /\ UNCHANGED <<bronze, silver, dim_vpc_metric, dim_time_hour_vpc,
                   fact_vpc_metrics, now, lastOp, repeated, lastErr, feed, auxVars, pc,
                   promoting, passBase>>

(* the statement has handled all its rows *)
UpsertEnd(w) ==
    /\ pc[w] = "upsert-rows"
    /\ \A x \in pending[w] : x.done
    /\ pc' = [pc EXCEPT ![w] = "done"]
    /\ Ran("resource-upsert", "none")
    /\ UNCHANGED <<bronze, silver, dim_vpc_resource, dim_vpc_metric,
                   dim_time_hour_vpc, fact_vpc_metrics, now, feed, auxVars, pending,
                   promoting, passBase>>

InitUpsertRace == InitStores /\ feed = "race"

NextUpsertRace ==
    \/ \E rec \in RawRecords(feed) : AppendBronze(rec)
    \/ Promote
    \/ Tick
    \/ \E w \in Passes : UpsertBegin(w)
    \/ \E w \in Passes : UpsertRow(w)
    \/ \E w \in Passes : UpsertEnd(w)

SpecUpsertRace == InitUpsertRace /\ [][NextUpsertRace]_vars

(* records with missing fields *)
InitSparse == InitStores /\ feed = "sparse"

SpecSparse == InitSparse /\ [][Next]_vars

(* records with attribute maps *)
InitMaps == InitStores /\ feed = "maps"

SpecMaps == InitMaps /\ [][Next]_vars

(* ------------------------- the query surface --------------------------- *)
(* the select list of the view *)
ViewRow(f) ==
    [resource_id |-> f.resource_id, vpc_id |-> f.vpc_id,
     vpc_name |-> f.vpc_name, resource_type |-> f.resource_type,
     timestamp |-> f.timestamp, event_date |-> f.event_date,
     region |-> f.region, metric_name |-> f.metric_name, value |-> f.value,
     unit |-> f.unit, dimensions_json |-> f.dimensions_json]

(* the rows SELECT <list> FROM <facts> returns, as a bag *)
SelectFrom(facts) ==
    [r \in {ViewRow(f) : f \in facts} |->
        Cardinality({f \in facts : ViewRow(f) = r})]

(* variant: the view keeps the latest fact of each resource and metric *)
gold_vpc_fact_metrics_latest(fact) ==
    SelectFrom({f \in fact : \A g \in fact :
                   (g.resource_id = f.resource_id /\ g.metric_name = f.metric_name)
                      => g.timestamp <= f.timestamp})

(* CREATE OR REPLACE VIEW gold_vpc_fact_metrics AS SELECT ... FROM
   fact_vpc_metrics *)
gold_vpc_fact_metrics(fact) == SelectFrom(fact)

(* a caller reads the view *)
QueryView ==
    /\ queried' = gold_vpc_fact_metrics(fact_vpc_metrics)
    /\ Ran("query", "none")
    /\ UNCHANGED <<bronze, silver, dim_vpc_resource, dim_vpc_metric,
                   dim_time_hour_vpc, fact_vpc_metrics, now, feed, pc, pending,
                   promoting, passBase, firstRun, page, filterBar, inflight,
                   today>>

InitQuery == InitStores /\ feed = "undated"

NextQuery ==
    \/ \E rec \in RawRecords(feed) : AppendBronze(rec)
    \/ Promote
    \/ GoldPass
    \/ Tick
    \/ QueryView

SpecQuery == InitQuery /\ [][NextQuery]_vars

(* ------------- the pipeline run again in a fresh schema ----------------- *)
(* the raw record a bronze row was stored for *)
RawOf(b) ==
    [vpc_id |-> b.vpc_id, vpc_name |-> b.vpc_name,
     resource_id |-> b.resource_id, resource_type |-> b.resource_type,
     region |-> b.region, account_id |-> b.account_id,
     timestamp |-> b.timestamp, metric_name |-> b.metric_name,
     value |-> b.value, unit |-> b.unit,
     dimensions_json |-> b.dimensions_json]

(* every bronze row is promoted and a gold pass has run since *)
RunComplete ==
    /\ lastOp = "gold" /\ lastErr = "none"
    /\ bronze # {}
    /\ HashKeys(silver) = HashKeys(bronze)

(* the scripts are instantiated for another __schema__: its tables are created
   empty; what the finished run left is remembered *)
NextSchema ==
    /\ ~ firstRun.done
    /\ RunComplete
    /\ firstRun' = [done |-> TRUE, records |-> {RawOf(b) : b \in bronze},
                    bronze |-> HashKeys(bronze), silver |-> HashKeys(silver),
                    fact |-> HashKeys(fact_vpc_metrics)]
    /\ bronze' = {} /\ silver' = {}
    /\ dim_vpc_resource' = {} /\ dim_vpc_metric' = {} /\ dim_time_hour_vpc' = {}
    /\ fact_vpc_metrics' = {}
    /\ lastOp' = "none" /\ repeated' = FALSE /\ lastErr' = "none"
    /\ UNCHANGED <<now, feed, pc, pending, promoting, passBase, queried, page,
                   filterBar, inflight, today>>


NextTwoRuns ==
    \/ \E rec \in RawRecords(feed) : AppendBronze(rec)
    \/ Promote
    \/ GoldPass
    \/ Tick
    \/ NextSchema

SpecTwoRuns == InitQuery /\ [][NextTwoRuns]_vars

(* ========================= recommendations UI ========================== *)
(* The recommendations page and its filter bar. React state is the record a
   component holds; an awaited request is an element of inflight until its
   answer arrives; the answers of two requests arrive in any order. *)

MaxDay == 2          \* the last day the browser's clock reaches
MaxRequests == 2     \* recommendation requests sent in one behaviour
MaxFetches == 3      \* resource-id fetches started in one behaviour

NoDate == -1         \* undefined
Epoch == 0           \* new Date(0)
Days == 0..MaxDay

(* the lists of resource types a page can offer *)
ResourceOptionLists == {<<>>, <<"Virtual Machine", "Storage Account">>}

OptionNames(options) == {options[i] : i \in DOMAIN options}

(* what the backend answers to a resource-id fetch for a type *)
ResourceIdsOf(resourceType) ==
    IF resourceType = "Virtual Machine" THEN {"vm-1"} ELSE {"sa-1"}

(* what the backend answers to a recommendation request *)
RecommendationsOf(req) == {<<req.resourceType, "recommendation">>}

ValidationMessage == "Please select a Resource Type to analyze."

FailureMessage == "Failed to load analysis. Please check the backend service."

(* the stores and bookkeeping the frontend never touches *)
storeVars == <<bronze, silver, dim_vpc_resource, dim_vpc_metric,
               dim_time_hour_vpc, fact_vpc_metrics, now, lastOp, repeated,
               lastErr, feed, pc, pending, promoting, passBase, firstRun,
               queried>>

Mounted == page.mounted

Requests(kind, reqs) == {r \in reqs : r.kind = kind}

(* useState initial values of the page *)
PageState(options) ==
    [mounted         |-> TRUE,
     resourceOptions |-> options,
     recommendations |-> {},
     isLoading       |-> FALSE,
     error           |-> NULL_TEXT,
     filters         |-> [resourceType |-> IF options = <<>> THEN ""
                                           ELSE options[1],
                          resourceId   |-> "",
                          startDate    |-> NoDate,
                          endDate      |-> NoDate],
     sent            |-> 0]

(* useState initial values of the filter bar; started counts the fetches it
   began and latest is how the last of them ended *)
FilterBarState ==
    [mounted            |-> TRUE,
     resourceIds        |-> {},
     loadingResourceIds |-> FALSE,
     started            |-> 0,
     latest             |-> "none"]

(* handleFetch without its validation: it sends whatever the filters hold *)
handleFetchUnvalidated(pg) ==
    [page |-> [pg EXCEPT !.isLoading = TRUE, !.error = NULL_TEXT,
                         !.sent = @ + 1],
     sent |-> {[kind |-> "recommendations", seq |-> pg.sent + 1,
                resourceType |-> pg.filters.resourceType]}]

(* handleFetch up to its await: the page state it sets and the request it
   sends *)
handleFetch(pg) ==
    IF pg.filters.resourceType = ""
    THEN [page |-> [pg EXCEPT !.error = ValidationMessage,
                              !.recommendations = {}],
          sent |-> {}]
    ELSE [page |-> [pg EXCEPT !.isLoading = TRUE, !.error = NULL_TEXT,
                              !.sent = @ + 1],
          sent |-> {[kind |-> "recommendations", seq |-> pg.sent + 1,
                     resourceType |-> pg.filters.resourceType]}]

(* fetchIds up to its await, for the resource type of the render it ran in *)
fetchIds(bar, resourceType) ==
    IF resourceType = ""
    THEN [bar  |-> [bar EXCEPT !.resourceIds = {}],
          sent |-> {}]
    ELSE [bar  |-> [bar EXCEPT !.loadingResourceIds = TRUE,
                               !.started = @ + 1, !.latest = "pending"],
          sent |-> {[kind |-> "resourceIds", seq |-> bar.started + 1,
                     resourceType |-> resourceType]}]

(* the page mounts with its filter bar on some day; the bar's effect runs
   once; the page has no effect of its own *)
Mount(options, day) ==
    /\ ~Mounted
    /\ today' = day
    /\ page' = PageState(options)
    /\ LET eff == fetchIds(FilterBarState, page'.filters.resourceType)
       IN  /\ filterBar' = eff.bar
           /\ inflight' = inflight \cup eff.sent
    /\ UNCHANGED storeVars

(* the user picks another resource type; the bar's effect runs again *)
SelectResourceType(value) ==
    /\ Mounted
    /\ value \in OptionNames(page.resourceOptions)
    /\ value # page.filters.resourceType
    /\ filterBar.started < MaxFetches
    /\ page' = [page EXCEPT !.filters.resourceType = value,
                            !.filters.resourceId = ""]
    /\ LET eff == fetchIds(filterBar, value)
       IN  /\ filterBar' = eff.bar
           /\ inflight' = inflight \cup eff.sent
    /\ UNCHANGED <<storeVars, today>>

(* a resource-id fetch resolves or rejects and fetchIds runs to its end *)
ResourceIdsAnswer(req, ok) ==
    /\ req \in Requests("resourceIds", inflight)
    /\ filterBar' = [filterBar EXCEPT
           !.resourceIds = IF ok THEN ResourceIdsOf(req.resourceType) ELSE {},
           !.loadingResourceIds = FALSE,
           !.latest = IF req.seq # filterBar.started THEN @
                      ELSE IF ok THEN "resolved" ELSE "rejected"]
    /\ inflight' = inflight \ {req}
    /\ UNCHANGED <<storeVars, page, today>>

(* the user picks a resource id, or "all" *)
SelectResourceId(value) ==
    /\ Mounted
    /\ ~(page.filters.resourceType = "" \/ filterBar.loadingResourceIds)
    /\ value \in {"all"} \cup filterBar.resourceIds
    /\ page' = [page EXCEPT
           !.filters.resourceId = IF value = "all" THEN "" ELSE value]
    /\ page' # page
    /\ UNCHANGED <<storeVars, filterBar, inflight, today>>

(* the user clicks an enabled day of the start calendar; clicking the day
   that is selected clears it *)
SelectStartDate(date) ==
    /\ Mounted
    /\ ~(date > today)
    /\ page' = [page EXCEPT !.filters.startDate =
                   IF date = page.filters.startDate THEN NoDate ELSE date]
    /\ UNCHANGED <<storeVars, filterBar, inflight, today>>

(* the user clicks an enabled day of the end calendar *)
SelectEndDate(date) ==
    /\ Mounted
    /\ ~(\/ date > today
         \/ date < (IF page.filters.startDate # NoDate
                    THEN page.filters.startDate ELSE Epoch))
    /\ page' = [page EXCEPT !.filters.endDate =
                   IF date = page.filters.endDate THEN NoDate ELSE date]
    /\ UNCHANGED <<storeVars, filterBar, inflight, today>>

(* midnight passes on the browser's clock *)
Midnight ==
    /\ Mounted
    /\ today < MaxDay
    /\ today' = today + 1
    /\ UNCHANGED <<storeVars, page, filterBar, inflight>>

(* the page's callback runs *)
HandleFetchCalled ==
    /\ Mounted
    /\ page.sent < MaxRequests
    /\ LET call == handleFetch(page)
       IN  /\ page' = call.page
           /\ inflight' = inflight \cup call.sent
    /\ UNCHANGED <<storeVars, filterBar, today>>

(* the user clicks the Run Analysis button, which is enabled *)
RunAnalysis ==
    /\ Mounted
    /\ ~(page.isLoading \/ page.filters.resourceType = "")
    /\ HandleFetchCalled

(* a recommendation request resolves or rejects and handleFetch runs to its
   end *)
RecommendationsAnswer(req, ok) ==
    /\ req \in Requests("recommendations", inflight)
    /\ page' = [page EXCEPT
           !.recommendations = IF ok THEN RecommendationsOf(req) ELSE @,
           !.error = IF ok THEN @ ELSE FailureMessage,
           !.isLoading = FALSE]
    /\ inflight' = inflight \ {req}
    /\ UNCHANGED <<storeVars, filterBar, today>>

InitFrontend == InitStores /\ feed = "none"

(* a user who changes the resource type and runs analyses *)
NextAnalysis ==
    \/ \E options \in ResourceOptionLists, day \in Days : Mount(options, day)
    \/ \E value \in {"Virtual Machine", "Storage Account"} :
           SelectResourceType(value)
    \/ \E req \in inflight, ok \in BOOLEAN : ResourceIdsAnswer(req, ok)
    \/ \E value \in {"all", "vm-1", "sa-1"} : SelectResourceId(value)
    \/ RunAnalysis
    \/ HandleFetchCalled
    \/ \E req \in inflight, ok \in BOOLEAN : RecommendationsAnswer(req, ok)

SpecAnalysis == InitFrontend /\ [][NextAnalysis]_vars

(* a user who sets the filters of the bar over several days *)
NextFilterBar ==
    \/ \E options \in ResourceOptionLists, day \in Days : Mount(options, day)
    \/ \E value \in {"Virtual Machine", "Storage Account"} :
           SelectResourceType(value)
    \/ \E req \in inflight, ok \in BOOLEAN : ResourceIdsAnswer(req, ok)
    \/ \E value \in {"all", "vm-1", "sa-1"} : SelectResourceId(value)
    \/ \E date \in Days : SelectStartDate(date)
    \/ \E date \in Days : SelectEndDate(date)
    \/ Midnight

SpecFilterBar == InitFrontend /\ [][NextFilterBar]_vars

TypeOK ==
    /\ now \in 0..MaxNow
    /\ Cardinality(bronze) <= MaxBronze

(* ============================== claims ================================= *)

(* C1: a gold pass that directly follows a gold pass (same silver contents)
   leaves the fact store as the first pass left it: same fingerprints, same
   value and sample count per fact, no added rows. *)
C1_RollupIdempotent ==
    [][(lastOp = "gold" /\ GoldPass) => fact_vpc_metrics' = fact_vpc_metrics]_vars

(* two gold passes ran in a row over a silver store that yields facts *)
C1_Witness ==
    /\ lastOp = "gold" /\ repeated /\ lastErr = "none"
    /\ fact_vpc_metrics # {}

(* C2: no two rows of the fact store have the same hash_key, in every state
   reachable by appends, promotes and gold passes. *)
C2_FactHashUnique ==
    \A f, g \in fact_vpc_metrics : f.hash_key = g.hash_key => f = g

(* a gold pass proposed two rows with one hash_key and the constraint
   rejected the insert *)
C2_Witness ==
    /\ lastOp = "gold" /\ lastErr = "unique_violation"
    /\ \E s, r \in silver : s # r /\ fact_hash_key(s, now) = fact_hash_key(r, now)

(* silver holds only records of one resource and one metric, all in one hour
   and at pairwise different instants *)
OneSeriesInOneHour(sil) ==
    /\ sil # {}
    /\ \A s, r \in sil :
          /\ s.resource_id = r.resource_id /\ s.vpc_id = r.vpc_id
          /\ s.vpc_name = r.vpc_name /\ s.resource_type = r.resource_type
          /\ s.region = r.region /\ s.account_id = r.account_id
          /\ s.metric_name = r.metric_name /\ s.unit = r.unit
          /\ DateTruncHour(s.timestamp) = DateTruncHour(r.timestamp)
          /\ (s # r => s.timestamp # r.timestamp)

(* C3: when silver holds n records of one resource and one metric in one
   hour, a gold pass into an empty fact store produces exactly one fact, whose
   value is the mean of the n values and whose sample count is n. *)
C3_HourlyMean ==
    [][(fact_vpc_metrics = {} /\ OneSeriesInOneHour(silver) /\ GoldPass)
         => /\ Cardinality(fact_vpc_metrics') = 1
            /\ \A f \in fact_vpc_metrics' :
                  /\ f.value = Avg(silver)
                  /\ f.samples = Cardinality(silver)]_vars

(* C4: the fact store holds at most one row per (lower-cased resource id,
   metric name, hour bucket). *)
C4_OneFactPerHour ==
    \A f, g \in fact_vpc_metrics :
        (/\ f.resource_id = g.resource_id
         /\ f.metric_name = g.metric_name
         /\ f.event_hour = g.event_hour) => f = g

(* the value, sample count, unit, attribute map and identity of a fact row *)
FactContent(f) ==
    [resource_key |-> f.resource_key, time_key |-> f.time_key,
     resource_id |-> f.resource_id, vpc_id |-> f.vpc_id,
     vpc_name |-> f.vpc_name, resource_type |-> f.resource_type,
     account_id |-> f.account_id, timestamp |-> f.timestamp,
     event_hour |-> f.event_hour, event_date |-> f.event_date,
     region |-> f.region, metric_name |-> f.metric_name,
     value |-> f.value, unit |-> f.unit,
     dimensions_json |-> f.dimensions_json, samples |-> f.samples,
     hash_key |-> f.hash_key]

(* C5: a fact row, once inserted, keeps its value, sample count, unit,
   attribute map and identity fields through every later operation. *)
C5_FactsNeverChange ==
    [][\A f \in fact_vpc_metrics : \E g \in fact_vpc_metrics' :
          FactContent(g) = FactContent(f)]_vars

(* a gold pass ran over a silver store holding a record that was ingested
   after the fact of its own hash_key was stored and that the fact does not
   count *)
C5_Witness ==
    /\ lastOp = "gold"
    /\ \E f \in fact_vpc_metrics : \E s \in silver :
          /\ fact_hash_key(s, now) = f.hash_key
          /\ s.ingested_at > f.ingested_at
          /\ f.samples = 1

(* C6: for every raw record R the bronze store holds at most one row with
   R's fingerprint, whatever was appended, and exactly one right after an
   append of R. *)
C6_IdempotentIngestion ==
    /\ [](\A rec \in RawRecords(feed) :
            Cardinality({b \in bronze : b.hash_key = Fingerprint(rec)}) <= 1)
    /\ [][\A rec \in RawRecords(feed) :
            \/ Cardinality({b \in bronze' : b.hash_key = Fingerprint(rec)}) = 1
            \/ ~ AppendBronze(rec)]_vars

(* two appends in a row left a single bronze row: the second one re-delivered
   the first one's fingerprint, at a later time *)
C6_Witness ==
    /\ lastOp = "append" /\ repeated
    /\ Cardinality(bronze) = 1
    /\ \E b \in bronze : b.ingested_at < now

(* C7: a promote that directly follows a promote (no append in between)
   leaves silver identical, row for row and field for field. *)
C7_DedupConvergence ==
    [][(lastOp = "promote" /\ Promote) => silver' = silver]_vars

(* two promotes ran in a row and silver holds a record whose missing event
   time was defaulted at an earlier clock reading *)
C7_Witness ==
    /\ lastOp = "promote" /\ repeated
    /\ \E s \in silver : \E b \in bronze :
          b.hash_key = s.hash_key /\ b.timestamp = NULL_TS /\ s.timestamp < now

(* C8: no two silver rows share a hash_key, and every step leaves each
   silver row in place unchanged. *)
C8_SilverAdditiveUnique ==
    /\ [](\A s, r \in silver : s.hash_key = r.hash_key => s = r)
    /\ [][silver \subseteq silver']_vars

(* silver was filled by more than one promote *)
C8_Witness ==
    /\ lastOp = "promote"
    /\ \E s, r \in silver : \E b \in bronze :
          /\ s # r
          /\ b.hash_key = s.hash_key /\ b.timestamp = NULL_TS
          /\ s.timestamp < r.ingested_at

(* C9: every fact row has a resource key and a time key, both set, that
   reference the resource-dimension row of the fact's resource and the
   time-bucket row of the fact's event hour. *)
C9_FactKeysResolved ==
    \A f \in fact_vpc_metrics :
        /\ f.resource_key # NULL_KEY
        /\ \E d \in dim_vpc_resource :
              d.resource_key = f.resource_key /\ Lower(d.resource_id) = f.resource_id
        /\ f.time_key # NULL_KEY
        /\ \E h \in dim_time_hour_vpc :
              h.time_key = f.time_key /\ h.event_hour = f.event_hour

(* C10: when two gold passes overlap and both propose a fact with the same
   hash_key, the losing insert is ignored: both passes end without an error
   and the fact store holds exactly one row of that hash_key. *)
C10_LosingInsertIgnored ==
    \A w, v \in Passes :
        (/\ w # v
         /\ pc[w] \in {"done", "failed"} /\ pc[v] \in {"done", "failed"}
         /\ HashKeys(pending[w]) \cap HashKeys(pending[v]) # {})
        => /\ pc[w] = "done" /\ pc[v] = "done"
           /\ \A h \in HashKeys(pending[w]) \cap HashKeys(pending[v]) :
                 Cardinality({f \in fact_vpc_metrics : f.hash_key = h}) = 1

(* C11: a promote that overlaps bronze appends inserts into silver exactly
   the fingerprints of the bronze snapshot it read that silver lacked, and,
   promote being run again and again, every fingerprint in bronze is
   eventually in silver. *)
C11_PromoteCatchesUp ==
    /\ [][(promoting.active /\ PromoteWrite) =>
            /\ HashKeys(silver') = HashKeys(silver) \cup HashKeys(promoting.rows)
            /\ silver' \ silver \subseteq promoting.rows]_vars
    /\ \A h \in {Fingerprint(r) : r \in AllRawRecords} :
          (h \in HashKeys(bronze)) ~> (h \in HashKeys(silver))

(* a record was appended after a promote had read its snapshot, that promote
   finished without it, and a later promote brought it into silver *)
C11_Witness ==
    /\ lastOp = "promote" /\ ~ promoting.active
    /\ HashKeys(bronze) = HashKeys(silver)
    /\ \E s, r \in silver : \E b \in bronze :
          /\ b.hash_key = s.hash_key /\ b.timestamp = NULL_TS
          /\ r.ingested_at > s.timestamp

(* the gold stores, facts without their load time *)
GoldView(res, met, tim, fact) ==
    [resource |-> res, metric |-> met, time |-> tim,
     fact |-> {FactContent(f) : f \in fact}]

(* C12: when a gold pass stopped after some of its statements, or one of its
   statements failed and changed nothing, a later complete pass over the same
   silver rows leaves the dimensions and the facts as one uninterrupted pass
   from the stores the stopped pass started from would have left them. *)
C12_CrashSafeResume ==
    [][(/\ pc["pass-1"] \in {"crashed", "failed"}
        /\ passBase.silver = silver
        /\ GoldPass)
       => GoldView(dim_vpc_resource', dim_vpc_metric', dim_time_hour_vpc',
                   fact_vpc_metrics')
          \in {GoldView(o.resource, o.metric, o.time, o.fact) :
                 o \in GoldPassResults(passBase.silver, passBase.resource,
                                       passBase.metric, passBase.time,
                                       passBase.fact, now)}]_vars

(* a pass over a non-empty silver store stopped before its time-bucket insert
   and a complete pass has since stored the facts *)
C12_Witness ==
    /\ pc["pass-1"] = "crashed" /\ passBase.stopped_at = "time"
    /\ passBase.silver = silver /\ silver # {}
    /\ passBase.resource = {} /\ passBase.fact = {}
    /\ lastOp = "gold" /\ lastErr = "none"
    /\ fact_vpc_metrics # {}

(* C13: no stage writes upstream. A stored bronze row is never updated or
   deleted, promote leaves bronze as it is, and a gold pass leaves bronze and
   silver as they are. *)
C13_NoUpstreamWrites ==
    [][/\ bronze \subseteq bronze'
       /\ (bronze' = bronze \/ ~ Promote)
       /\ ((bronze' = bronze /\ silver' = silver) \/ ~ GoldPass)]_vars

(* both downstream stages have run over a bronze store of several rows, all
   of which are still there *)
C13_Witness ==
    /\ lastOp = "gold" /\ lastErr = "none"
    /\ Cardinality(bronze) > 1
    /\ HashKeys(silver) = HashKeys(bronze)
    /\ HashKeys(fact_vpc_metrics) # {}
    /\ dim_vpc_resource # {}

(* C14: a resource-dimension row, once stored, keeps its first_seen through
   every later step, whatever the later silver rows of its resource id carry. *)
C14_FirstSeenImmutable ==
    [][\A d \in dim_vpc_resource :
          \E e \in dim_vpc_resource' : /\ e.resource_id = d.resource_id
                                       /\ e.first_seen = d.first_seen]_vars

(* a resource upsert ran again after silver rows of a known resource id had
   been loaded later than the row's first_seen *)
C14_Witness ==
    /\ lastOp = "gold" /\ repeated /\ lastErr = "none"
    /\ \E d \in dim_vpc_resource : \E s \in silver :
          /\ s.resource_id = d.resource_id
          /\ s.ingested_at > d.first_seen

(* the descriptive attributes of a dimension row or of a silver row *)
ResourceAttributes(r) ==
    <<CoalesceText(r.vpc_id, ""), CoalesceText(r.vpc_name, ""),
      CoalesceText(r.resource_type, "vpc"), CoalesceText(r.region, ""),
      CoalesceText(r.account_id, "")>>

(* the silver rows of a resource id that were loaded last *)
LatestObserved(sil, id) ==
    {s \in sil : /\ CoalesceText(s.resource_id, "") = id
                 /\ \A x \in sil : CoalesceText(x.resource_id, "") = id
                                     => x.ingested_at <= s.ingested_at}

(* C15: the resource upsert of a gold pass succeeds over any silver store and
   leaves exactly one dimension row per resource id of silver, carrying the
   attributes of the latest-observed silver row of that id. *)
C15_ResourceUpsertLatest ==
    [][(lastOp' = "gold" /\ GoldPass) =>
          /\ lastErr' # "cardinality_violation"
          /\ \A id \in {CoalesceText(s.resource_id, "") : s \in silver} :
                /\ Cardinality({d \in dim_vpc_resource' : d.resource_id = id}) = 1
                /\ \A d \in dim_vpc_resource' :
                      d.resource_id = id =>
                         ResourceAttributes(d) \in
                            {ResourceAttributes(s) : s \in LatestObserved(silver, id)}
      ]_vars

(* C16: the metric dimension is first-writer-wins. A stored row keeps its
   unit and description through every later step, also when later silver rows
   carry another unit for its metric name, and no metric name has two rows. *)
C16_MetricFirstWriterWins ==
    [][/\ \A d \in dim_vpc_metric :
             \E e \in dim_vpc_metric' : /\ e.metric_name = d.metric_name
                                        /\ e.unit = d.unit
                                        /\ e.description = d.description
       /\ \A d, e \in dim_vpc_metric' : d.metric_name = e.metric_name => d = e
      ]_vars

(* a metric insert ran again while silver held a row with another unit for a
   stored metric name *)
C16_Witness ==
    /\ lastOp = "gold" /\ repeated /\ lastErr = "none"
    /\ \E d \in dim_vpc_metric : \E s \in silver :
          s.metric_name = d.metric_name /\ s.unit # d.unit

(* the tick an hour bucket's calendar fields stand for *)
HourStart(d) ==
    (((d.year * MonthsPerYear + (d.month - 1)) * DaysPerMonth + (d.day - 1))
        * HoursPerDay + d.hour) * TicksPerHour

(* C17: after the time-bucket insert of a gold pass there is exactly one
   bucket row per hour-truncated silver timestamp; a bucket row is never
   changed once stored; its year, month, day and hour are the calendar fields
   of its own event hour. *)
C17_TimeBuckets ==
    [][/\ dim_time_hour_vpc \subseteq dim_time_hour_vpc'
       /\ \A d \in dim_time_hour_vpc' :
             /\ d.month \in 1..MonthsPerYear /\ d.day \in 1..DaysPerMonth
             /\ d.hour \in 0..(HoursPerDay - 1) /\ d.year >= 0
             /\ HourStart(d) = d.event_hour
       /\ (lastOp' = "gold" /\ lastErr' # "cardinality_violation" /\ GoldPass)
             => /\ Keys(dim_time_hour_vpc', "event_hour")
                     = {DateTruncHour(s.timestamp) : s \in silver}
                /\ Cardinality(dim_time_hour_vpc')
                     = Cardinality(Keys(dim_time_hour_vpc', "event_hour"))
      ]_vars

(* buckets of two hours are stored, one of them for a silver timestamp inside
   an hour of a later year, and the time-bucket insert has run again *)
C17_Witness ==
    /\ lastOp = "gold" /\ repeated
    /\ Cardinality(dim_time_hour_vpc) > 1
    /\ \E d \in dim_time_hour_vpc : \E s \in silver :
          /\ d.year > 0 /\ d.hour > 0
          /\ s.timestamp # d.event_hour
          /\ DateTruncHour(s.timestamp) = d.event_hour

(* C19: surrogate keys are stable and injective. A resource id, metric name
   or event hour that has a surrogate key keeps it through every later step,
   and no two rows of a dimension share a surrogate key. *)
C19_SurrogateKeys ==
    [][/\ \A d \in dim_vpc_resource : \E e \in dim_vpc_resource' :
             e.resource_id = d.resource_id /\ e.resource_key = d.resource_key
       /\ \A d \in dim_vpc_metric : \E e \in dim_vpc_metric' :
             e.metric_name = d.metric_name /\ e.metric_key = d.metric_key
       /\ \A d \in dim_time_hour_vpc : \E e \in dim_time_hour_vpc' :
             e.event_hour = d.event_hour /\ e.time_key = d.time_key
       /\ \A d, e \in dim_vpc_resource' :
             d.resource_key = e.resource_key => d.resource_id = e.resource_id
       /\ \A d, e \in dim_vpc_metric' :
             d.metric_key = e.metric_key => d.metric_name = e.metric_name
       /\ \A d, e \in dim_time_hour_vpc' :
             d.time_key = e.time_key => d.event_hour = e.event_hour
      ]_vars

(* every dimension holds two natural keys and the upserts have run again
   over them *)
C19_Witness ==
    /\ lastOp = "gold" /\ repeated /\ lastErr = "none"
    /\ Cardinality(Keys(dim_vpc_resource, "resource_id")) > 1
    /\ Cardinality(Keys(dim_vpc_metric, "metric_name")) > 1
    /\ Cardinality(Keys(dim_time_hour_vpc, "event_hour")) > 1
    /\ \E d, e \in dim_vpc_resource : d.first_seen < e.first_seen

(* C18: while the resource upserts of two sessions interleave row by row,
   a resource id never has two dimension rows, and the attributes of its row
   are, all five together, those of a row one of the upserts has written. *)
C18_AtomicUpsert ==
    \A d \in dim_vpc_resource :
       /\ \A e \in dim_vpc_resource : e.resource_id = d.resource_id => e = d
       /\ \E w \in Passes : \E x \in pending[w] :
             /\ x.done
             /\ x.row.resource_id = d.resource_id
             /\ ResourceAttributes(x.row) = ResourceAttributes(d)

(* both upserts are under way and have both written the row of one resource
   id, and the first still has a row to handle *)
C18_Witness ==
    /\ pc["pass-1"] = "upsert-rows" /\ pc["pass-2"] = "upsert-rows"
    /\ \E x \in pending["pass-1"] : \E y \in pending["pass-2"] :
          /\ x.done /\ y.done
          /\ x.row.resource_id = y.row.resource_id
    /\ \E x \in pending["pass-1"] : ~ x.done

(* C20: gold and bronze/silver fingerprints live in distinct namespaces: no
   hash_key of the fact store equals a hash_key of bronze or of silver. *)
C20_DistinctHashNamespaces ==
    HashKeys(fact_vpc_metrics) \cap (HashKeys(bronze) \cup HashKeys(silver)) = {}

(* C21: fingerprints are a function of the record's content. When the
   pipeline has run to completion over the raw records an earlier complete
   run had, in another order or at other times, bronze, silver and the fact
   store hold the fingerprints the earlier run left. *)
C21_FingerprintDeterminism ==
    (/\ firstRun.done
     /\ RunComplete
     /\ {RawOf(b) : b \in bronze} = firstRun.records)
    => /\ HashKeys(bronze) = firstRun.bronze
       /\ HashKeys(silver) = firstRun.silver
       /\ HashKeys(fact_vpc_metrics) = firstRun.fact

(* the default the claim names for a missing field *)
ClaimedDefault(field, t) ==
    CASE field = "timestamp" -> t
      [] field = "value" -> 0
      [] OTHER -> ""

(* C22: a silver row created by promote has no NULL in its identity fields,
   timestamp, metric name, value or unit: a field that is NULL in the bronze
   row holds its default (the empty text for vpc id, vpc name, resource id,
   resource type, region, account and unit, zero for value, the current time
   for timestamp), any other field is copied. *)
C22_CanonicalDefaults ==
    [][\A s \in silver' \ silver :
          \E b \in bronze :
             /\ b.hash_key = s.hash_key
             /\ \A f \in {"vpc_id", "vpc_name", "resource_id", "resource_type",
                          "region", "account_id", "timestamp", "value", "unit"} :
                   s[f] = IF b[f] = NullOf(f) THEN ClaimedDefault(f, now)
                          ELSE b[f]
             /\ s.metric_name # NULL_TEXT
             /\ b.metric_name # NULL_TEXT => s.metric_name = b.metric_name
      ]_vars

(* C23: the pipeline is strictly forward. Every silver fingerprint is that of
   a bronze row, a bronze row has at most one silver row, and the resource
   id, timestamp and metric name of every fact are those of a silver row. *)
C23_StrictlyForward ==
    /\ \A s \in silver : \E b \in bronze : b.hash_key = s.hash_key
    /\ \A b \in bronze :
          Cardinality({s \in silver : s.hash_key = b.hash_key}) <= 1
    /\ \A f \in fact_vpc_metrics :
          \E s \in silver : /\ s.resource_id = f.resource_id
                            /\ s.timestamp = f.timestamp
                            /\ s.metric_name = f.metric_name

(* the silver rows aggregated into a fact *)
GroupOf(f, sil) ==
    {s \in sil : /\ Lower(s.resource_id) = f.resource_id
                 /\ s.timestamp = f.timestamp
                 /\ s.metric_name = f.metric_name
                 /\ s.vpc_id = f.vpc_id /\ s.vpc_name = f.vpc_name
                 /\ s.resource_type = f.resource_type
                 /\ s.account_id = f.account_id /\ s.region = f.region}

(* C24: the attribute map of a fact as it is stored: absent when no row of
   its group carries a map, the single map when all maps of the group are the
   same, else the collection of the distinct maps. *)
C24_MergedAttributeMap ==
    [][\A f \in fact_vpc_metrics' \ fact_vpc_metrics :
          LET maps == {s.dimensions_json : s \in GroupOf(f, silver)}
                         \ {NULL_TEXT}
          IN  /\ maps = {} => f.dimensions_json.kind = "null"
              /\ Cardinality(maps) = 1 =>
                    /\ f.dimensions_json.kind = "object"
                    /\ f.dimensions_json.items = maps
              /\ Cardinality(maps) > 1 =>
                    /\ f.dimensions_json.kind = "array"
                    /\ f.dimensions_json.items = maps
      ]_vars

(* a fact aggregates two rows carrying different maps *)
C24_Witness ==
    \E f \in fact_vpc_metrics :
       /\ f.samples > 1
       /\ f.dimensions_json.kind = "array"
       /\ f.dimensions_json.items = AttributeMaps

(* the columns the claim names, of a fact or of a row of the view *)
Queried(r) ==
    <<r.resource_id, r.metric_name, r.value, r.unit, r.timestamp,
      r.dimensions_json>>

(* C25: the query surface is a read-only projection of the fact store. A
   query returns as many rows as there are facts, each combination of
   resource id, metric name, value, unit, timestamp and attribute map as
   often as the facts carry it, and changes no store. *)
C25_ReadOnlyProjection ==
    [][(lastOp' = "query" /\ QueryView) =>
          /\ BagCardinality(queried') = Cardinality(fact_vpc_metrics)
          /\ \A f \in fact_vpc_metrics :
                BagCardinality([r \in {x \in DOMAIN queried' :
                                          Queried(x) = Queried(f)}
                                  |-> queried'[r]])
                   = Cardinality({g \in fact_vpc_metrics :
                                     Queried(g) = Queried(f)})
          /\ UNCHANGED <<bronze, silver, dim_vpc_resource, dim_vpc_metric,
                         dim_time_hour_vpc, fact_vpc_metrics>>
      ]_vars

(* a query has returned the rows of two facts of one resource and metric *)
C25_Witness ==
    /\ lastOp = "query"
    /\ BagCardinality(queried) > 1
    /\ Cardinality(fact_vpc_metrics) > 1

(* C26: every fact carries references to all three dimensions: besides its
   resource key and time key, a reference to the metric-dimension row of its
   metric name. *)
C26_MetricReference ==
    \A f \in fact_vpc_metrics :
       /\ {"resource_key", "time_key", "metric_key"} \subseteq DOMAIN f
       /\ \E m \in dim_vpc_metric : /\ m.metric_key = f["metric_key"]
                                    /\ m.metric_name = f.metric_name

(* C27: in a gold pass run alone no two aggregate groups get one gold
   fingerprint, and the pass never ends on the unique constraint of the fact
   store. *)
C27_GroupsHaveDistinctHashes ==
    /\ \A a, b \in metric_agg(silver, now) :
          a.fact_hash_key = b.fact_hash_key => a = b
    /\ lastOp = "gold" => lastErr # "unique_violation"

(* C28: the page sends a recommendation request only in a step in which its
   handleFetch callback (what Run Analysis triggers) runs while a resource
   type is selected; mounting sends none; and handleFetch run with an empty
   resource type sets the validation message, empties the recommendation
   list, leaves isLoading false and sends nothing. *)
C28_FetchOnlyOnRunAnalysis ==
    [][/\ (Requests("recommendations", inflight') \ inflight # {})
            => /\ Mounted
               /\ page.filters.resourceType # ""
               /\ HandleFetchCalled
       /\ ~Mounted => Requests("recommendations", inflight') = {}
       /\ (HandleFetchCalled /\ page.filters.resourceType = "")
            => /\ page'.error = ValidationMessage
               /\ page'.recommendations = {}
               /\ page'.isLoading = FALSE
               /\ inflight' = inflight]_vars

(* handleFetch has run on a page that offers no resource type *)
C28_Witness ==
    /\ Mounted
    /\ page.filters.resourceType = ""
    /\ page.error = ValidationMessage
    /\ page.recommendations = {}
    /\ ~page.isLoading
    /\ inflight = {}

(* C29: while a resource-id fetch is in flight loadingResourceIds is true,
   and when none is in flight the list shown is what the fetch for the
   selected resource type returned, or empty if that fetch failed or none
   was issued. *)
C29_ResourceIdsFollowType ==
    Mounted =>
       /\ Requests("resourceIds", inflight) # {} => filterBar.loadingResourceIds
       /\ Requests("resourceIds", inflight) = {} =>
              filterBar.resourceIds =
                  IF filterBar.latest = "resolved"
                  THEN ResourceIdsOf(page.filters.resourceType)
                  ELSE {}

(* C30: neither selected date is after today and, when both are selected,
   the end date is not before the start date. *)
C30_DatesOrdered ==
    Mounted =>
       LET f == page.filters
       IN  /\ f.startDate <= today
           /\ f.endDate <= today
           /\ (f.startDate # NoDate /\ f.endDate # NoDate)
                  => f.endDate >= f.startDate

====
